---- MODULE Spec2Model ----
(***************************************************************************)
(* A model of clover's document core: internal.Normalize, the Document     *)
(* type of package document (lazy field map + cached msgpack bytes) and    *)
(* the index constructor of package index.                                 *)
(*                                                                         *)
(* Go values are records [k |-> kind, v |-> payload].  A map held by a     *)
(* Document lives in `heap` and is referred to by [k |-> "ref", v |-> r],  *)
(* so that two documents sharing a map is a state the model can express.   *)
(* A dot-path "a.b.c" is modelled by the result of strings.Split(name,     *)
(* "."), the non-empty sequence <<"a","b","c">>.                           *)
(***************************************************************************)
EXTENDS Integers, Sequences, FiniteSets, TLC

VARIABLES docs, heap, last, panicked, nrm, idx

vars == <<docs, heap, last, panicked, nrm, idx>>

-----------------------------------------------------------------------------
(* Bounds of the model *)

\* number of map objects the heap can hold
MaxRef == 8
\* instants range over 0..MaxTick half-milliseconds
MaxTick == 2

(* Program constants *)

\* time.Millisecond, in nanoseconds (the unit of time.Duration)
Millisecond == 1000000
\* math.MaxInt8: the largest value the compact encoding writes as a fixnum
MaxInt8 == 127
\* IndexType iota
IndexSingleField == 0
IndexGeoSpatial == 1

ObjectIdField == "_id"
ExpiresAtField == "_expiresAt"

-----------------------------------------------------------------------------
(* Go values *)

NilV == [k |-> "nil", v |-> 0]
IntV(n) == [k |-> "int", v |-> n]
UintV(n) == [k |-> "uint", v |-> n]
StrV(s) == [k |-> "str", v |-> s]
TimeV(t) == [k |-> "time", v |-> t]
PtrTimeV(t) == [k |-> "ptime", v |-> t]
NilPtrV == [k |-> "nilptr", v |-> 0]
FuncV == [k |-> "func", v |-> 0]
IntKeyMapV == [k |-> "imap", v |-> 0]
MapV(m) == [k |-> "map", v |-> m]
RefV(r) == [k |-> "ref", v |-> r]

EmptyMap == [key \in {} |-> NilV]

MapPut(m, key, val) ==
    [x \in (DOMAIN m) \cup {key} |-> IF x = key THEN val ELSE m[x]]

Ok(val) == [err |-> FALSE, val |-> val]
Err == [err |-> TRUE, val |-> NilV]

\* x := v; F(x): the local variable x holds the value of v, worked out once
Bind(v, F(_)) == CHOOSE y \in {F(x) : x \in {v}} : TRUE

-----------------------------------------------------------------------------
(* internal.Normalize.  A struct value is [k |-> "struct", v |-> fields],  *)
(* fields the sequence of its fields in declaration order, each            *)
(* [name, tag, exported, anonymous, kind, val]: tag is the clover tag      *)
(* split at its commas (strings.Split: <<"">> for no tag), exported is     *)
(* PkgPath == "", kind the reflect.Kind of the field, val its value.       *)

BoolV(b) == [k |-> "bool", v |-> b]
ListV(q) == [k |-> "list", v |-> q]
SliceV(q) == [k |-> "slice", v |-> q]
ArrayV(q) == [k |-> "array", v |-> q]
PtrV(val) == [k |-> "ptr", v |-> val]
StructV(fields) == [k |-> "struct", v |-> fields]

processStructTag(tags) ==
    [name |-> tags[1], omitempty |-> Len(tags) > 1 /\ tags[2] = "omitempty"]

\* a faulty isEmptyValue: the reflect.Bool case is missing
isEmptyValueNoBool(kind, val) ==
    CASE kind \in {"array", "slice", "str"} -> Len(val.v) = 0
      [] kind = "map"                       -> DOMAIN val.v = {}
      [] kind \in {"int", "uint", "float"}  -> val.v = 0
      [] kind \in {"iface", "ptr"}          -> val.k \in {"nil", "nilptr"}
      [] OTHER                              -> FALSE

isEmptyValue(kind, val) ==
    CASE kind \in {"array", "slice", "str"} -> Len(val.v) = 0
      [] kind = "map"                       -> DOMAIN val.v = {}
      [] kind = "bool"                      -> ~val.v
      [] kind \in {"int", "uint", "float"}  -> val.v = 0
      [] kind \in {"iface", "ptr"}          -> val.k \in {"nil", "nilptr"}
      [] OTHER                              -> FALSE

RECURSIVE Normalize(_)

\* the merge of an embedded field's map: for k, v := range normalizedMap
Merge(m, n) ==
    [x \in (DOMAIN m) \cup (DOMAIN n) |-> IF x \in DOMAIN n THEN n[x] ELSE m[x]]

\* normalizeStruct's loop from field i on, m the map built so far
RECURSIVE normalizeFields(_, _, _)
normalizeFields(fields, i, m) ==
    IF i > Len(fields) THEN Ok(MapV(m))
    ELSE LET f   == fields[i]
             tag == processStructTag(f.tag)
             fieldName == IF tag.name # "" THEN tag.name ELSE f.name
             normalized == Normalize(f.val)
         IN  IF ~f.exported THEN normalizeFields(fields, i + 1, m)
             ELSE IF tag.omitempty /\ isEmptyValue(f.kind, f.val)
             THEN normalizeFields(fields, i + 1, m)
             ELSE IF normalized.err THEN Err
             ELSE IF f.anonymous /\ normalized.val.k = "map"
             THEN normalizeFields(fields, i + 1, Merge(m, normalized.val.v))
             ELSE normalizeFields(fields, i + 1, MapPut(m, fieldName, normalized.val))

normalizeStruct(fields) == normalizeFields(fields, 1, EmptyMap)

normalizeSlice(q) ==
    LET rs == [i \in 1..Len(q) |-> Normalize(q[i])]
    IN  IF \E i \in 1..Len(q) : rs[i].err
        THEN Err
        ELSE Ok(ListV([i \in 1..Len(q) |-> rs[i].val]))

normalizeMap(m) ==
    LET rs == [key \in DOMAIN m |-> Normalize(m[key])]
    IN  IF \E key \in DOMAIN m : rs[key].err
        THEN Err
        ELSE Ok(MapV([key \in DOMAIN m |-> rs[key].val]))

Normalize(value) ==
    CASE value.k = "nil"    -> Ok(NilV)
      [] value.k = "time"   -> Ok(value)
      [] value.k = "ptime"  -> Ok(TimeV(value.v))
      [] value.k = "ptr"    -> Normalize(value.v)
      [] value.k = "nilptr" -> Ok(NilV)
      [] value.k = "uint"   -> Ok(UintV(value.v))
      [] value.k = "int"    -> Ok(IntV(value.v))
      [] value.k = "float"  -> Ok(value)
      [] value.k = "struct" -> normalizeStruct(value.v)
      [] value.k = "map"    -> normalizeMap(value.v)
      [] value.k = "str"    -> Ok(value)
      [] value.k = "bool"   -> Ok(value)
      [] value.k \in {"slice", "array", "list"} -> normalizeSlice(value.v)
      [] value.k = "imap"   -> Err
      [] OTHER              -> Err

-----------------------------------------------------------------------------
(* The codec: marshal/unmarshal with UseCompactInts(true).                 *)
(* Wire values: wnil, wint (fixnum and int8..int64 codes, decoded signed), *)
(* wuint (uint8..uint64 codes, decoded unsigned), wstr, wtime, wmap,       *)
(* wimap (a map whose keys are not strings).                               *)

NoMsg == [k |-> "none", v |-> 0]
WNil == [k |-> "wnil", v |-> 0]

\* Encoder.EncodeUint: the type of the number is lost
EncodeUint(n) ==
    IF n <= MaxInt8 THEN [k |-> "wint", v |-> n] ELSE [k |-> "wuint", v |-> n]

\* Encoder.EncodeInt
EncodeInt(n) ==
    IF n >= 0 THEN EncodeUint(n) ELSE [k |-> "wint", v |-> n]

RECURSIVE marshal(_)
marshal(o) ==
    CASE o.k = "nil"    -> Ok(WNil)
      [] o.k = "nilptr" -> Ok(WNil)
      [] o.k = "int"    -> Ok(EncodeInt(o.v))
      [] o.k = "uint"   -> Ok(EncodeUint(o.v))
      [] o.k = "str"    -> Ok([k |-> "wstr", v |-> o.v])
      [] o.k = "bool"   -> Ok([k |-> "wbool", v |-> o.v])
      [] o.k = "float"  -> Ok([k |-> "wfloat", v |-> o.v])
      [] o.k = "list"   ->
            LET rs == [i \in 1..Len(o.v) |-> marshal(o.v[i])]
            IN  IF \E i \in 1..Len(o.v) : rs[i].err
                THEN Err
                ELSE Ok([k |-> "wlist", v |-> [i \in 1..Len(o.v) |-> rs[i].val]])
      [] o.k = "time"   -> Ok([k |-> "wtime", v |-> o.v])
      [] o.k = "ptime"  -> Ok([k |-> "wtime", v |-> o.v])
      [] o.k = "imap"   -> Ok([k |-> "wimap", v |-> 0])
      [] o.k = "map"    ->
            LET rs == [key \in DOMAIN o.v |-> marshal(o.v[key])]
            IN  IF \E key \in DOMAIN o.v : rs[key].err
                THEN Err
                ELSE Ok([k |-> "wmap", v |-> [key \in DOMAIN o.v |-> rs[key].val]])
      [] OTHER          -> Err

\* Decoder.DecodeInterface: the generic value a wire value decodes to
RECURSIVE decodeInterface(_)
decodeInterface(w) ==
    CASE w.k = "wnil"  -> Ok(NilV)
      [] w.k = "wint"  -> Ok(IntV(w.v))
      [] w.k = "wuint" -> Ok(UintV(w.v))
      [] w.k = "wstr"  -> Ok(StrV(w.v))
      [] w.k = "wbool" -> Ok(BoolV(w.v))
      [] w.k = "wfloat" -> Ok([k |-> "float", v |-> w.v])
      [] w.k = "wlist" ->
            LET rs == [i \in 1..Len(w.v) |-> decodeInterface(w.v[i])]
            IN  IF \E i \in 1..Len(w.v) : rs[i].err
                THEN Err
                ELSE Ok(ListV([i \in 1..Len(w.v) |-> rs[i].val]))
      [] w.k = "wtime" -> Ok(TimeV(w.v))
      [] w.k = "wmap"  ->
            LET rs == [key \in DOMAIN w.v |-> decodeInterface(w.v[key])]
            IN  IF \E key \in DOMAIN w.v : rs[key].err
                THEN Err
                ELSE Ok(MapV([key \in DOMAIN w.v |-> rs[key].val]))
      [] OTHER         -> Err

\* unmarshal(b, &fields) with fields a map[string]interface{}
unmarshal(b) ==
    CASE b.k = "wmap" -> decodeInterface(b)
      [] b.k = "wnil" -> Ok(MapV(EmptyMap))
      [] OTHER        -> Err

-----------------------------------------------------------------------------
(* The heap of map objects.  H = [mem, used, oom]: mem[r] is the map       *)
(* object r, used the refs taken, oom set when an allocation found none    *)
(* (the allocation then yields the nil map 0 and the step is not taken).   *)

Refs == 1..MaxRef

NewRef(H) ==
    IF Refs \ H.used = {} THEN 0
    ELSE CHOOSE r \in Refs \ H.used : \A s \in Refs \ H.used : r <= s

\* make(map[string]interface{})
Alloc(H) ==
    LET r == NewRef(H)
    IN  IF r = 0
        THEN [H |-> [H EXCEPT !.oom = TRUE], r |-> 0]
        ELSE [H |-> [H EXCEPT !.mem[r] = EmptyMap, !.used = @ \cup {r}], r |-> r]

\* currMap[field] = v
HeapPut(H, r, key, val) ==
    IF r = 0 THEN H ELSE [H EXCEPT !.mem[r] = MapPut(@, key, val)]

\* a freshly built value (maps as functions) placed in the heap
RECURSIVE Store(_, _)
RECURSIVE StoreEntries(_, _, _, _)
StoreEntries(H, r, m, keys) ==
    IF keys = {} THEN H
    ELSE LET key == CHOOSE x \in keys : TRUE
         IN  Bind(Store(H, m[key]), LAMBDA s :
                 StoreEntries(HeapPut(s.H, r, key, s.val), r, m, keys \ {key}))

Store(H, val) ==
    IF val.k # "map" THEN [H |-> H, val |-> val]
    ELSE Bind(Alloc(H), LAMBDA a :
             [H |-> StoreEntries(a.H, a.r, val.v, DOMAIN val.v), val |-> RefV(a.r)])

\* the value a heap value stands for, maps as functions
RECURSIVE View(_, _)
View(mem, val) ==
    IF val.k # "ref" THEN val
    ELSE IF val.v = 0 THEN MapV(EmptyMap)
    ELSE MapV([key \in DOMAIN mem[val.v] |-> View(mem, mem[val.v][key])])

RECURSIVE Reach(_, _)
Reach(mem, r) ==
    IF r = 0 THEN {} ELSE
    {r} \cup UNION { Reach(mem, mem[r][key].v) :
                       key \in {x \in DOMAIN mem[r] : mem[r][x].k = "ref"} }

-----------------------------------------------------------------------------
(* Document *)

DocIds == {1, 2}

\* fields = 0 is the nil map: the document is not materialized
NoDoc == [live |-> FALSE, msg |-> NoMsg, fields |-> 0]

Roots(ds) == {ds[x].fields : x \in {y \in DocIds : ds[y].fields # 0}}

LiveRefs(mem, ds) == UNION {Reach(mem, r) : r \in Roots(ds)}

\* the heap an operation starts from
HeapOf(mem, ds) == [mem |-> mem, used |-> LiveRefs(mem, ds), oom |-> FALSE]

\* The maps the documents reach, in the order a walk from docs[1], then
\* docs[2], first meets them.  A map's address is not observable, so a state
\* names its maps by this order; maps no document reaches are reclaimed.
RECURSIVE Walk(_, _, _)
RECURSIVE WalkEntries(_, _, _, _)
WalkEntries(mem, r, keys, seen) ==
    IF keys = {} THEN seen
    ELSE LET key == CHOOSE x \in keys : TRUE
         IN  Bind(Walk(mem, mem[r][key].v, seen), LAMBDA met :
                 WalkEntries(mem, r, keys \ {key}, met))

Walk(mem, r, seen) ==
    IF \E i \in 1..Len(seen) : seen[i] = r THEN seen
    ELSE WalkEntries(mem, r, {x \in DOMAIN mem[r] : mem[r][x].k = "ref"},
                     Append(seen, r))

RECURSIVE WalkRoots(_, _, _, _)
WalkRoots(mem, ds, x, seen) ==
    IF x \notin DocIds THEN seen
    ELSE Bind(IF ds[x].fields = 0 THEN seen ELSE Walk(mem, ds[x].fields, seen),
              LAMBDA met : WalkRoots(mem, ds, x + 1, met))

Rename(order, r) == CHOOSE i \in 1..Len(order) : order[i] = r

RenameVal(order, val) ==
    IF val.k = "ref" THEN RefV(Rename(order, val.v)) ELSE val

CollectHeap(mem, ds) ==
    Bind(WalkRoots(mem, ds, 1, <<>>), LAMBDA order :
        [r \in Refs |->
            IF r > Len(order) THEN EmptyMap
            ELSE [key \in DOMAIN mem[order[r]] |-> RenameVal(order, mem[order[r]][key])]])

CollectDocs(mem, ds) ==
    Bind(WalkRoots(mem, ds, 1, <<>>), LAMBDA order :
        [x \in DocIds |->
            IF ds[x].fields = 0 THEN ds[x]
            ELSE [ds[x] EXCEPT !.fields = Rename(order, @)]])

\* what an operation hands back: the heap, the document, the outcome
\* ("ok", "panic", "ignored", "error", "invalid") and the returned value
Result(H, d, out, ret) == [H |-> H, d |-> d, out |-> out, ret |-> ret]

\* a faulty initFields: the decoded map is not kept in doc.fields
initFieldsNoCache(H, d) ==
    IF d.fields # 0 \/ d.msg = NoMsg THEN [H |-> H, d |-> d, err |-> FALSE]
    ELSE Bind(unmarshal(d.msg), LAMBDA u :
             [H |-> H, d |-> d, err |-> u.err \/ Normalize(u.val).err])

\* Document.initFields: err is the error it returns
initFields(H, d) ==
    IF d.fields # 0 THEN [H |-> H, d |-> d, err |-> FALSE]
    ELSE IF d.msg = NoMsg
    THEN Bind(Alloc(H), LAMBDA a :
             [H |-> a.H, d |-> [d EXCEPT !.fields = a.r], err |-> FALSE])
    ELSE Bind(unmarshal(d.msg), LAMBDA u :
             IF u.err THEN [H |-> H, d |-> d, err |-> TRUE]
             ELSE Bind(Normalize(u.val), LAMBDA n :
                      IF n.err THEN [H |-> H, d |-> d, err |-> TRUE]
                      ELSE Bind(Store(H, n.val), LAMBDA s :
                               [H |-> s.H, d |-> [d EXCEPT !.fields = s.val.v],
                                err |-> FALSE])))

\* Document.mustInitFields: err means panic(err)
mustInitFields(H, d) == initFields(H, d)

\* lookupField, from the i-th segment on: m = 0 is the nil map
RECURSIVE lookupFrom(_, _, _, _, _)
lookupFrom(H, currMap, fields, i, force) ==
    LET field  == fields[i]
        exists == currMap # 0 /\ field \in DOMAIN H.mem[currMap]
        f0     == IF exists THEN H.mem[currMap][field] ELSE NilV
        isMap  == f0.k = "ref"
        inner  == i < Len(fields)
        create == force /\ (~exists \/ ~isMap) /\ inner
    IN  IF ~force /\ ~exists THEN [H |-> H, m |-> 0, f |-> NilV]
        ELSE IF create
        THEN Bind(Alloc(H), LAMBDA a :
                 Bind(HeapPut(a.H, currMap, field, RefV(a.r)), LAMBDA H1 :
                     lookupFrom(H1, a.r, fields, i + 1, force)))
        ELSE IF inner
        THEN lookupFrom(H, IF isMap THEN f0.v ELSE 0, fields, i + 1, force)
        ELSE [H |-> H, m |-> currMap, f |-> f0]

\* a faulty lookupField: force is not honoured
lookupFieldNoForce(H, fieldMap, name, force) == lookupFrom(H, fieldMap, name, 1, FALSE)

lookupField(H, fieldMap, name, force) == lookupFrom(H, fieldMap, name, 1, force)

\* a faulty Has: it tests the value found, not the presence of the entry
HasNonNull(H, d, name) ==
    Bind(mustInitFields(H, d), LAMBDA mt :
        IF mt.err THEN Result(H, d, "panic", NilV)
        ELSE Bind(lookupField(mt.H, mt.d.fields, name, FALSE), LAMBDA lk :
                 Result(mt.H, mt.d, "ok", BoolV(lk.f # NilV))))

\* Document.Has
Has(H, d, name) ==
    Bind(mustInitFields(H, d), LAMBDA mt :
        IF mt.err THEN Result(H, d, "panic", NilV)
        ELSE Bind(lookupField(mt.H, mt.d.fields, name, FALSE), LAMBDA lk :
                 Result(mt.H, mt.d, "ok", BoolV(lk.m # 0))))

\* Document.Get
Get(H, d, name) ==
    Bind(mustInitFields(H, d), LAMBDA mt :
        IF mt.err THEN Result(H, d, "panic", NilV)
        ELSE Bind(lookupField(mt.H, mt.d.fields, name, FALSE), LAMBDA lk :
                 Result(mt.H, mt.d, "ok", View(mt.H.mem, lk.f))))

\* a faulty Set: the path is looked up (and its intermediate maps created)
\* before the outcome of the normalization is tested
SetLookupFirst(H, d, name, value) ==
    Bind(mustInitFields(H, d), LAMBDA mt :
    Bind(Normalize(value), LAMBDA nv :
        IF mt.err THEN Result(H, d, "panic", NilV)
        ELSE Bind(lookupField(mt.H, mt.d.fields, name, TRUE), LAMBDA lk :
             IF nv.err THEN Result(lk.H, mt.d, "ignored", NilV)
             ELSE Bind(Store(lk.H, nv.val), LAMBDA st :
                  Bind(HeapPut(st.H, lk.m, name[Len(name)], st.val), LAMBDA H2 :
                  Bind(marshal(View(H2.mem, RefV(mt.d.fields))), LAMBDA b :
                      IF b.err THEN Result(H2, mt.d, "panic", NilV)
                      ELSE Result(H2, [mt.d EXCEPT !.msg = b.val], "ok", NilV)))))))

\* Document.Set
Set(H, d, name, value) ==
    Bind(mustInitFields(H, d), LAMBDA mt :
    Bind(Normalize(value), LAMBDA nv :
        IF mt.err THEN Result(H, d, "panic", NilV)
        ELSE IF nv.err THEN Result(mt.H, mt.d, "ignored", NilV)
        ELSE Bind(lookupField(mt.H, mt.d.fields, name, TRUE), LAMBDA lk :
             Bind(Store(lk.H, nv.val), LAMBDA st :
             Bind(HeapPut(st.H, lk.m, name[Len(name)], st.val), LAMBDA H2 :
             Bind(marshal(View(H2.mem, RefV(mt.d.fields))), LAMBDA b :
                 IF b.err THEN Result(H2, mt.d, "panic", NilV)
                 ELSE Result(H2, [mt.d EXCEPT !.msg = b.val], "ok", NilV)))))))

\* Document.SetAll: values is the mapping in the order the range visits it
RECURSIVE SetAllFrom(_, _, _, _)
SetAllFrom(H, d, values, i) ==
    IF i > Len(values) THEN Result(H, d, "ok", NilV)
    ELSE Bind(Set(H, d, values[i][1], values[i][2]), LAMBDA r :
             IF r.out = "panic" THEN r
             ELSE SetAllFrom(r.H, r.d, values, i + 1))

\* a faulty SetAll: the loop ends at the first entry Set ignores
RECURSIVE SetAllStopFrom(_, _, _, _)
SetAllStopFrom(H, d, values, i) ==
    IF i > Len(values) THEN Result(H, d, "ok", NilV)
    ELSE Bind(Set(H, d, values[i][1], values[i][2]), LAMBDA r :
             IF r.out = "panic" THEN r
             ELSE IF r.out = "ignored" THEN Result(r.H, r.d, "ok", NilV)
             ELSE SetAllStopFrom(r.H, r.d, values, i + 1))

SetAllStopAtFailure(H, d, values) == SetAllStopFrom(H, d, values, 1)

SetAll(H, d, values) == SetAllFrom(H, d, values, 1)

\* util.CopyMap: nested maps are copied, other values are shared
CopyMap(H, r) == Store(H, View(H.mem, RefV(r)))

\* Document.ToMap (and AsMap): the caller gets a copy
ToMap(H, d) ==
    Bind(mustInitFields(H, d), LAMBDA mt :
        IF mt.err THEN Result(H, d, "panic", NilV)
        ELSE Result(mt.H, mt.d, "ok", View(mt.H.mem, RefV(mt.d.fields))))

\* Document.Fields: the state it leaves; the listing goes to the caller
Fields(H, d) ==
    Bind(mustInitFields(H, d), LAMBDA mt :
        IF mt.err THEN Result(H, d, "panic", NilV)
        ELSE Result(mt.H, mt.d, "ok", NilV))

\* a faulty Copy: the copy holds the original's field map itself
CopyShared(H, d) == Result(H, [live |-> TRUE, msg |-> d.msg, fields |-> d.fields], "ok", NilV)

\* Document.Copy
Copy(H, d) ==
    IF d.fields # 0
    THEN Bind(CopyMap(H, d.fields), LAMBDA c :
             Result(c.H, [live |-> TRUE, msg |-> d.msg, fields |-> c.val.v], "ok", NilV))
    ELSE Result(H, [live |-> TRUE, msg |-> d.msg, fields |-> 0], "ok", NilV)

\* Document.ObjectId
ObjectId(H, d) ==
    Bind(Get(H, d, <<ObjectIdField>>), LAMBDA g :
        IF g.out = "panic" THEN g
        ELSE Result(g.H, g.d, "ok", IF g.ret.k = "str" THEN g.ret ELSE StrV("")))

\* Document.ExpiresAt: NilV is the nil pointer
ExpiresAt(H, d) ==
    Bind(Get(H, d, <<ExpiresAtField>>), LAMBDA g :
        IF g.out = "panic" THEN g
        ELSE Result(g.H, g.d, "ok", IF g.ret.k = "time" THEN g.ret ELSE NilV))

\* Document.SetExpiresAt
SetExpiresAt(H, d, expiration) == Set(H, d, <<ExpiresAtField>>, TimeV(expiration))

\* Document.TTL, with now the value time.Now() returns
TTL(H, d, now) ==
    Bind(ExpiresAt(H, d), LAMBDA e :
        IF e.out = "panic" THEN e
        ELSE IF e.ret = NilV THEN Result(e.H, e.d, "ok", IntV(-1))
        ELSE IF e.ret.v < now THEN Result(e.H, e.d, "ok", IntV(0))
        ELSE Result(e.H, e.d, "ok",
                    IntV(Millisecond * ((e.ret.v - now) \div Millisecond))))

ValidId == "550e8400-e29b-41d4-a716-446655440000"

\* isValidObjectId: uuid.FromString accepts the id
isValidObjectId(id) == id = ValidId

\* Validate
Validate(H, d) ==
    Bind(ObjectId(H, d), LAMBDA o :
        IF o.out = "panic" THEN o
        ELSE IF ~isValidObjectId(o.ret.v) THEN Result(o.H, o.d, "invalid", NilV)
        ELSE Bind(Has(o.H, o.d, <<ExpiresAtField>>), LAMBDA h :
             Bind(ExpiresAt(o.H, o.d), LAMBDA e :
                 IF h.ret.v /\ e.ret = NilV
                 THEN Result(o.H, o.d, "invalid", NilV)
                 ELSE Result(o.H, o.d, "ok", NilV))))

\* NewDocument
NewDocument == [live |-> TRUE, msg |-> NoMsg, fields |-> 0]

\* NewDocumentFrom (NewDocumentOf drops the error): out "error" returns no document
NewDocumentFrom(H, o) ==
    Bind(marshal(o), LAMBDA b :
        IF b.err THEN Result(H, NoDoc, "error", NilV)
        ELSE Result(H, [live |-> TRUE, msg |-> b.val, fields |-> 0], "ok", NilV))

\* Decode
Decode(data) == [live |-> TRUE, msg |-> data, fields |-> 0]

\* Encode
Encode(H, d) == Result(H, d, "ok", d.msg)

-----------------------------------------------------------------------------
(* Inputs *)

Times == {t * (Millisecond \div 2) : t \in 0..MaxTick}

SetPaths == {<<"a">>, <<"a", "b">>, <<"a", "b", "c">>}
GetPaths == SetPaths \cup {<<"a", "b", "x">>, <<"a", "c">>}
SetValues ==
    {NilV, IntV(5), UintV(5), FuncV, IntKeyMapV, MapV([key \in {"c"} |-> IntV(5)])}

\* the entries SetAll is handed, and every order a range can visit them in
AllPaths == {<<"a", "b">>, <<"a", "c">>}
AllValues == {IntV(5), FuncV}
Entries == AllPaths \X AllValues
Mappings ==
    {<<>>} \cup {<<e>> : e \in Entries}
           \cup {<<p[1], p[2]>> : p \in {q \in Entries \X Entries : q[1][1] # q[2][1]}}

FromObjects ==
    { MapV([key \in {ObjectIdField} |-> StrV(ValidId)]),
      MapV([key \in {ObjectIdField, ExpiresAtField} |->
               IF key = ObjectIdField THEN StrV(ValidId) ELSE StrV("soon")]),
      NilV, IntV(5), FuncV }

\* bytes from elsewhere: none, a map not written compactly, a scalar
DecodeData ==
    { NoMsg,
      [k |-> "wmap", v |-> [key \in {"a"} |-> [k |-> "wuint", v |-> 5]]],
      [k |-> "wstr", v |-> "x"] }

-----------------------------------------------------------------------------
(* The state machine: docs[x] is the Document the program holds in         *)
(* variable x, last the call just made and what it returned, panicked      *)
(* whether a call panicked (the program has stopped).                      *)

Call(op, x) ==
    [op |-> op, doc |-> x, src |-> 0, path |-> <<>>, val |-> NilV,
     entries |-> <<>>, now |-> 0, out |-> "ok", ret |-> NilV]

NoNrm == [in |-> <<>>, err |-> FALSE, out |-> EmptyMap, done |-> FALSE]
NoIdx == [made |-> FALSE, isNil |-> TRUE, collection |-> "", field |-> "",
          type |-> 0, txn |-> 0, argCollection |-> "", argField |-> "",
          argType |-> 0, argTxn |-> 0, call |-> "", ret |-> ""]

Init ==
    /\ docs = [x \in DocIds |-> NoDoc]
    /\ heap = [r \in Refs |-> EmptyMap]
    /\ last = Call("init", 0)
    /\ panicked = FALSE
    /\ nrm = NoNrm
    /\ idx = NoIdx

H0 == HeapOf(heap, docs)

\* the call returns r (or panics) on the document held in x
Apply(x, call, result) ==
    /\ ~panicked
    /\ \E r \in {result} :
          /\ ~r.H.oom
          /\ \E ds \in {IF r.out = "panic" THEN docs ELSE [docs EXCEPT ![x] = r.d]} :
                /\ docs' = CollectDocs(r.H.mem, ds)
                /\ heap' = CollectHeap(r.H.mem, ds)
          /\ panicked' = (r.out = "panic")
          /\ last' = [call EXCEPT !.out = r.out, !.ret = r.ret]
    /\ UNCHANGED <<nrm, idx>>

DoNewDocument(x) ==
    Apply(x, Call("NewDocument", x), Result(H0, NewDocument, "ok", NilV))

DoNewDocumentFrom(x, o) ==
    Apply(x, [Call("NewDocumentFrom", x) EXCEPT !.val = o], NewDocumentFrom(H0, o))

DoDecode(x, data) ==
    Apply(x, Call("Decode", x), Result(H0, Decode(data), "ok", NilV))

DoEncode(x) ==
    /\ docs[x].live
    /\ Apply(x, Call("Encode", x), Encode(H0, docs[x]))

DoCopy(x, y) ==
    /\ docs[x].live
    /\ Apply(y, [Call("Copy", y) EXCEPT !.src = x], Copy(H0, docs[x]))

DoGet(x, name) ==
    /\ docs[x].live
    /\ Apply(x, [Call("Get", x) EXCEPT !.path = name], Get(H0, docs[x], name))

DoHas(x, name) ==
    /\ docs[x].live
    /\ Apply(x, [Call("Has", x) EXCEPT !.path = name], Has(H0, docs[x], name))

DoSet(x, name, value) ==
    /\ docs[x].live
    /\ Apply(x, [Call("Set", x) EXCEPT !.path = name, !.val = value],
             Set(H0, docs[x], name, value))

DoSetAll(x, values) ==
    /\ docs[x].live
    /\ Apply(x, [Call("SetAll", x) EXCEPT !.entries = values],
             SetAll(H0, docs[x], values))

DoSetExpiresAt(x, t) ==
    /\ docs[x].live
    /\ Apply(x, [Call("SetExpiresAt", x) EXCEPT !.val = TimeV(t)],
             SetExpiresAt(H0, docs[x], t))

DoToMap(x) ==
    /\ docs[x].live
    /\ Apply(x, Call("ToMap", x), ToMap(H0, docs[x]))

DoFields(x) ==
    /\ docs[x].live
    /\ Apply(x, Call("Fields", x), Fields(H0, docs[x]))

DoObjectId(x) ==
    /\ docs[x].live
    /\ Apply(x, Call("ObjectId", x), ObjectId(H0, docs[x]))

DoExpiresAt(x) ==
    /\ docs[x].live
    /\ Apply(x, Call("ExpiresAt", x), ExpiresAt(H0, docs[x]))

DoTTL(x, now) ==
    /\ docs[x].live
    /\ Apply(x, [Call("TTL", x) EXCEPT !.now = now], TTL(H0, docs[x], now))

DoValidate(x) ==
    /\ docs[x].live
    /\ Apply(x, Call("Validate", x), Validate(H0, docs[x]))

\* the program holds one Document: Copy replaces it by its copy
Next ==
    \/ DoNewDocument(1)
    \/ \E o \in FromObjects : DoNewDocumentFrom(1, o)
    \/ \E data \in DecodeData \cup {docs[1].msg} : DoDecode(1, data)
    \/ DoEncode(1)
    \/ DoCopy(1, 1)
    \/ \E name \in GetPaths : DoGet(1, name)
    \/ \E name \in GetPaths : DoHas(1, name)
    \/ \E name \in SetPaths, value \in SetValues : DoSet(1, name, value)
    \/ \E values \in Mappings : DoSetAll(1, values)
    \/ \E t \in Times : DoSetExpiresAt(1, t)
    \/ DoToMap(1)
    \/ DoFields(1)
    \/ DoObjectId(1)
    \/ DoExpiresAt(1)
    \/ \E now \in Times : DoTTL(1, now)
    \/ DoValidate(1)

Spec == Init /\ [][Next]_vars

-----------------------------------------------------------------------------
(* The program holds two Documents, the second a copy of the first (or the *)
(* first a copy of the second).                                            *)

CopyPaths == {<<"a">>, <<"a", "b">>}
CopyValues == {IntV(5), NilV, MapV([key \in {"c"} |-> IntV(5)])}
CopyMappings == {m \in Mappings : Len(m) = 2 /\ m[1][2] = IntV(5)}

NextCopy ==
    \/ DoNewDocument(1)
    \/ DoNewDocumentFrom(1, MapV([key \in {"a"} |-> MapV([key2 \in {"b"} |-> IntV(5)])]))
    \/ DoCopy(1, 2)
    \/ DoCopy(2, 1)
    \/ \E x \in DocIds, name \in CopyPaths, value \in CopyValues : DoSet(x, name, value)
    \/ \E x \in DocIds, values \in CopyMappings : DoSetAll(x, values)
    \/ \E x \in DocIds, name \in CopyPaths : DoGet(x, name)
    \/ \E x \in DocIds : DoToMap(x)
    \/ \E x \in DocIds : DoEncode(x)

SpecCopy == Init /\ [][NextCopy]_vars

-----------------------------------------------------------------------------
(* Normalize applied to a structured record *)

ZeroInner == StructV(<<[name |-> "X", tag |-> <<"">>, exported |-> TRUE,
                        anonymous |-> FALSE, kind |-> "int", val |-> IntV(0)]>>)
OneInner == StructV(<<[name |-> "X", tag |-> <<"">>, exported |-> TRUE,
                       anonymous |-> FALSE, kind |-> "int", val |-> IntV(1)]>>)

\* a field's kind with its zero value and a non-zero value
KindVals ==
    { [kind |-> "int", val |-> IntV(0)], [kind |-> "int", val |-> IntV(7)],
      [kind |-> "uint", val |-> UintV(0)], [kind |-> "uint", val |-> UintV(7)],
      [kind |-> "float", val |-> [k |-> "float", v |-> 0]],
      [kind |-> "float", val |-> [k |-> "float", v |-> 2]],
      [kind |-> "bool", val |-> BoolV(FALSE)], [kind |-> "bool", val |-> BoolV(TRUE)],
      [kind |-> "str", val |-> StrV("")], [kind |-> "str", val |-> StrV("x")],
      [kind |-> "slice", val |-> SliceV(<<>>)], [kind |-> "slice", val |-> SliceV(<<IntV(1)>>)],
      [kind |-> "array", val |-> ArrayV(<<IntV(0)>>)], [kind |-> "array", val |-> ArrayV(<<IntV(1)>>)],
      [kind |-> "map", val |-> MapV(EmptyMap)],
      [kind |-> "map", val |-> MapV([key \in {"k"} |-> IntV(1)])],
      [kind |-> "ptr", val |-> NilPtrV], [kind |-> "ptr", val |-> PtrV(IntV(0))],
      [kind |-> "ptr", val |-> PtrV(OneInner)],
      [kind |-> "iface", val |-> NilV], [kind |-> "iface", val |-> IntV(0)],
      [kind |-> "struct", val |-> ZeroInner], [kind |-> "struct", val |-> OneInner],
      [kind |-> "func", val |-> FuncV] }

Tags == { <<"">>, <<"n">>, <<"n", "omitempty">>, <<"", "omitempty">>,
          <<"n", "omitempty", "x">>, <<"n", "x", "omitempty">> }

FirstFields ==
    { [name |-> "A", tag |-> t, exported |-> e, anonymous |-> a,
       kind |-> kv.kind, val |-> kv.val] :
          t \in Tags, e \in BOOLEAN, a \in BOOLEAN, kv \in KindVals }

SecondFields ==
    { [name |-> "B", tag |-> t, exported |-> TRUE, anonymous |-> FALSE,
       kind |-> "int", val |-> IntV(1)] : t \in {<<"">>, <<"n">>} }

Records == {StructV(<<f, g>>) : f \in FirstFields, g \in SecondFields}

InitNorm ==
    /\ docs = [x \in DocIds |-> NoDoc]
    /\ heap = [r \in Refs |-> EmptyMap]
    /\ last = Call("init", 0)
    /\ panicked = FALSE
    /\ nrm \in {[NoNrm EXCEPT !.in = o] : o \in Records}
    /\ idx = NoIdx

DoNormalize ==
    /\ ~nrm.done
    /\ LET r == Normalize(nrm.in)
       IN  nrm' = [nrm EXCEPT !.done = TRUE, !.err = r.err,
                              !.out = IF r.err THEN EmptyMap ELSE r.val.v]
    /\ UNCHANGED <<docs, heap, last, panicked, idx>>

NextNorm == DoNormalize

SpecNorm == InitNorm /\ [][NextNorm]_vars

-----------------------------------------------------------------------------
(* package index: CreateBadgerIndex and the accessors of the Index it      *)
(* returns.  idx is the Index the program holds: isNil the nil interface,  *)
(* collection, field the indexBase, type the variant, txn the transaction; *)
(* arg* the arguments of the call that made it; ret what the last accessor *)
(* returned ("panic": a method call on the nil interface).                 *)

Collections == {"todos", "users", "orders"}
IndexFields == {"title", "age", "loc"}
Txns == {1, 2}
IndexTypes == {IndexSingleField, IndexGeoSpatial}

\* badgerRangeIndex.Type
RangeIndexType == IndexSingleField

CreateBadgerIndex(collection, field, idxType, txn) ==
    IF idxType = IndexSingleField
    THEN [isNil |-> FALSE, collection |-> collection, field |-> field,
          type |-> RangeIndexType, txn |-> txn]
    ELSE [isNil |-> TRUE, collection |-> "", field |-> "", type |-> 0, txn |-> 0]

DoCreateBadgerIndex(collection, field, idxType, txn) ==
    /\ idx.ret # "panic"
    /\ LET i == CreateBadgerIndex(collection, field, idxType, txn)
       IN  idx' = [made |-> TRUE, isNil |-> i.isNil, collection |-> i.collection,
                   field |-> i.field, type |-> i.type, txn |-> i.txn,
                   argCollection |-> collection, argField |-> field,
                   argType |-> idxType, argTxn |-> txn, call |-> "", ret |-> ""]
    /\ UNCHANGED <<docs, heap, last, panicked, nrm>>

\* indexBase.Collection
DoCollection ==
    /\ idx.made /\ idx.ret # "panic"
    /\ idx' = [idx EXCEPT !.call = "Collection",
                          !.ret = IF idx.isNil THEN "panic" ELSE idx.collection]
    /\ UNCHANGED <<docs, heap, last, panicked, nrm>>

\* indexBase.Field
DoField ==
    /\ idx.made /\ idx.ret # "panic"
    /\ idx' = [idx EXCEPT !.call = "Field",
                          !.ret = IF idx.isNil THEN "panic" ELSE idx.field]
    /\ UNCHANGED <<docs, heap, last, panicked, nrm>>

\* Index.Type
DoType ==
    /\ idx.made /\ idx.ret # "panic"
    /\ idx' = [idx EXCEPT !.call = "Type",
                          !.ret = IF idx.isNil THEN "panic"
                                  ELSE IF idx.type = IndexSingleField
                                  THEN "IndexSingleField" ELSE "IndexGeoSpatial"]
    /\ UNCHANGED <<docs, heap, last, panicked, nrm>>

NextIndex ==
    \/ \E c \in Collections, f \in IndexFields, t \in IndexTypes, txn \in Txns :
          DoCreateBadgerIndex(c, f, t, txn)
    \/ DoCollection
    \/ DoField
    \/ DoType

SpecIndex == Init /\ [][NextIndex]_vars

-----------------------------------------------------------------------------
(* What the claims speak of *)

NoDocs == [x \in DocIds |-> NoDoc]
NoHeap == HeapOf([r \in Refs |-> EmptyMap], NoDocs)

\* the field map Decode(data) materializes to (err: it cannot)
Materialized(data) ==
    LET r == initFields(NoHeap, Decode(data))
    IN  IF r.err THEN Err ELSE Ok(View(r.H.mem, RefV(r.d.fields)))

IsMaterialized(x) == docs[x].live /\ docs[x].fields # 0

\* the field map of the document in x: the one it holds, or the one its
\* bytes stand for
FieldMap(x) ==
    IF docs[x].fields # 0 THEN View(heap, RefV(docs[x].fields))
    ELSE Materialized(docs[x].msg).val

\* what Get and Has return in the current state (their own effect on the
\* document, materializing it, is worked out on a scratch heap)
Scratch == [mem |-> heap, used |-> {}, oom |-> FALSE]
GetNow(x, name) == Get(Scratch, docs[x], name).ret
HasNow(x, name) == Has(Scratch, docs[x], name).ret.v

IsPrefix(p, q) == Len(p) <= Len(q) /\ SubSeq(q, 1, Len(p)) = p
Related(p, q) == IsPrefix(p, q) \/ IsPrefix(q, p)

\* the field map has an entry at every segment of the path
RECURSIVE EntryPresent(_, _)
EntryPresent(t, name) ==
    /\ t.k = "map"
    /\ name[1] \in DOMAIN t.v
    /\ Len(name) = 1 \/ EntryPresent(t.v[name[1]], Tail(name))

RECURSIVE EntryValue(_, _)
EntryValue(t, name) ==
    IF Len(name) = 1 THEN t.v[name[1]] ELSE EntryValue(t.v[name[1]], Tail(name))

-----------------------------------------------------------------------------
\* C1: whenever a document's field map is materialized, decoding and
\* normalizing its encoded bytes yields a map equal to the field map
\* (a fresh empty document, whose bytes are absent, included).
C1_BytesAgreeWithFields ==
    \A x \in DocIds :
        IsMaterialized(x) =>
            LET rt == Materialized(docs[x].msg)
            IN  ~rt.err /\ rt.val = FieldMap(x)

-----------------------------------------------------------------------------
\* C2: after Set(p, v) with v normalizing successfully, every intermediate
\* segment of p is a map (one holding only the next segment if the segment
\* was missing or held a non-map value before), Get(p) returns normalize(v)
\* and Has(p) is true; on a document that was empty, Get of every path that
\* neither leads to p nor into the value set returns absent and Has is false.
C2_SetPost(x, p, v) ==
    LET nv  == Normalize(v)
        pre == FieldMap(x)
    IN  /\ ~nv.err
        /\ GetNow(x, p)' = nv.val
        /\ HasNow(x, p)'
        /\ \A i \in 1..(Len(p) - 1) :
              LET q == SubSeq(p, 1, i)
                  g == GetNow(x, q)'
              IN  /\ g.k = "map"
                  /\ (~EntryPresent(pre, q) \/ EntryValue(pre, q).k # "map")
                      => DOMAIN g.v = {p[i + 1]}
        /\ pre = MapV(EmptyMap) =>
              \A q \in GetPaths :
                  ~Related(p, q) => GetNow(x, q)' = NilV /\ ~HasNow(x, q)'

C2_SetStep ==
    (last'.op = "Set" /\ last'.out = "ok") =>
        \A x \in DocIds, p \in SetPaths, v \in SetValues :
            (last'.doc = x /\ last'.path = p /\ last'.val = v)
                => C2_SetPost(x, p, v)

C2_SetThenGet == [][C2_SetStep]_vars

\* Set("a.b.c", 5) has given {a:{b:{c:5}}}; Get("a.b.x") is absent
C2_Witness ==
    /\ last.op = "Set" /\ last.out = "ok"
    /\ last.path = <<"a", "b", "c">> /\ last.val = IntV(5)
    /\ FieldMap(1) = MapV([k1 \in {"a"} |-> MapV([k2 \in {"b"} |->
                          MapV([k3 \in {"c"} |-> IntV(5)])])])
    /\ GetNow(1, <<"a", "b", "c">>) = IntV(5)
    /\ GetNow(1, <<"a", "b", "x">>) = NilV

-----------------------------------------------------------------------------
\* the entry a path names, if the field map has one
EntryAt(t, name) ==
    IF EntryPresent(t, name) THEN Ok(EntryValue(t, name)) ELSE Err

\* C3: a Set whose value fails normalization returns without an error and
\* changes neither the field map (no intermediate segment is created) nor
\* the cached bytes, whether or not the document was materialized before.
C3_IgnoredStep ==
    (last'.op = "Set" /\ last'.out # "panic" /\ Normalize(last'.val).err) =>
        /\ last'.out = "ignored"
        /\ \A x \in DocIds :
              last'.doc = x =>
                  /\ docs'[x].msg = docs[x].msg
                  /\ FieldMap(x)' = FieldMap(x)

C3_FailedSetIgnored == [][C3_IgnoredStep]_vars

\* Set("a.b.c", <unsupported>) was ignored and no "a" was created
C3_Witness ==
    /\ last.op = "Set" /\ last.out = "ignored"
    /\ Len(last.path) = 3
    /\ ~HasNow(1, <<"a">>)

-----------------------------------------------------------------------------
\* C4 (as claimed): when the value of an entry of SetAll fails normalization,
\* the entries visited before it remain applied and the entries visited
\* after it are skipped.
C4_LaterSkippedStep ==
    (last'.op = "SetAll" /\ last'.out # "panic") =>
        \A x \in DocIds, values \in Mappings :
            (last'.doc = x /\ last'.entries = values) =>
                \A i \in 1..Len(values) :
                    Normalize(values[i][2]).err =>
                        /\ \A j \in 1..(i - 1) :
                              ~Normalize(values[j][2]).err =>
                                  GetNow(x, values[j][1])' = Normalize(values[j][2]).val
                        /\ \A j \in (i + 1)..Len(values) :
                              EntryAt(FieldMap(x)', values[j][1])
                                  = EntryAt(FieldMap(x), values[j][1])

C4_LaterSkipped == [][C4_LaterSkippedStep]_vars

\* C4 (amended): SetAll skips exactly the entries whose value fails
\* normalization; every entry whose value normalizes is applied, before or
\* after a failing one (entries whose paths do not lead into one another).
C4_OnlyFailingSkippedStep ==
    (last'.op = "SetAll" /\ last'.out # "panic") =>
        \A x \in DocIds, values \in Mappings :
            (last'.doc = x /\ last'.entries = values) =>
                \A i \in 1..Len(values) :
                    (\A j \in 1..Len(values) :
                        j # i => ~Related(values[i][1], values[j][1])) =>
                        IF Normalize(values[i][2]).err
                        THEN EntryAt(FieldMap(x)', values[i][1])
                                 = EntryAt(FieldMap(x), values[i][1])
                        ELSE GetNow(x, values[i][1])' = Normalize(values[i][2]).val

C4_OnlyFailingSkipped == [][C4_OnlyFailingSkippedStep]_vars

\* SetAll visited a failing entry first and applied the one after it
C4_Witness ==
    /\ last.op = "SetAll" /\ last.out = "ok"
    /\ last.entries = << <<(<<"a", "b">>), FuncV>>, <<(<<"a", "c">>), IntV(5)>> >>
    /\ GetNow(1, <<"a", "c">>) = IntV(5)
    /\ ~HasNow(1, <<"a", "b">>)

-----------------------------------------------------------------------------
\* C6: TTL returns -1 when no expiration instant is set, 0 when the instant
\* is not after the current time, otherwise the remaining time truncated to
\* whole milliseconds; an expiration still in the future never reports 0.
C6_TTL ==
    (last.op = "TTL" /\ last.out = "ok") =>
        LET e == EntryAt(FieldMap(last.doc), <<ExpiresAtField>>)
        IN  IF e.err \/ e.val.k # "time" THEN last.ret = IntV(-1)
            ELSE IF e.val.v <= last.now THEN last.ret = IntV(0)
            ELSE /\ last.ret = IntV(Millisecond * ((e.val.v - last.now) \div Millisecond))
                 /\ last.ret # IntV(0)

-----------------------------------------------------------------------------
\* C7 (as claimed): Has answers for a field present with a null value what
\* it answers for an absent field.
C7_NullLikeAbsent ==
    (last.op = "Has" /\ last.out = "ok") =>
        LET e == EntryAt(FieldMap(last.doc), last.path)
        IN  (~e.err /\ e.val = NilV) => last.ret.v = FALSE

\* C7 (amended): Has(path) is true exactly when the field map has an entry
\* at every segment of the path, whatever the entry's value: true for a field
\* present with a null value, false for an absent field.
C7_HasIsPresence ==
    (last.op = "Has" /\ last.out = "ok") =>
        last.ret.v = EntryPresent(FieldMap(last.doc), last.path)

\* Has returned true for a field that is present and holds null
C7_Witness ==
    /\ last.op = "Has" /\ last.out = "ok"
    /\ last.ret.v = TRUE
    /\ EntryAt(FieldMap(last.doc), last.path) = Ok(NilV)

-----------------------------------------------------------------------------
\* C10: Decode, NewDocumentFrom, Encode and Copy of an unmaterialized
\* document leave the field map unmaterialized; Get, Has, Set, ToMap, Fields,
\* ObjectId, ExpiresAt, TTL and Validate leave the document materialized when
\* they return; a materialized document stays materialized as long as the
\* variable holds it.
Constructors == {"NewDocument", "NewDocumentFrom", "Decode", "Copy"}
Materializers ==
    {"Get", "Has", "Set", "ToMap", "Fields", "ObjectId", "ExpiresAt", "TTL", "Validate"}

C10_Step ==
    /\ (last'.op \in {"Decode", "NewDocumentFrom"} /\ last'.out = "ok")
          => docs'[last'.doc].live /\ docs'[last'.doc].fields = 0
    /\ (last'.op = "Encode" /\ docs[last'.doc].fields = 0)
          => docs'[last'.doc].fields = 0
    /\ (last'.op = "Copy" /\ docs[last'.src].fields = 0)
          => /\ docs'[last'.doc].fields = 0
             /\ docs'[last'.src].fields = 0
    /\ (last'.op \in Materializers /\ last'.out # "panic")
          => docs'[last'.doc].fields # 0
    /\ \A x \in DocIds :
          (docs[x].fields # 0 /\ ~(last'.doc = x /\ last'.op \in Constructors))
              => docs'[x].fields # 0

C10_LazyOneWay == [][C10_Step]_vars

\* a document decoded from bytes has been materialized by a Get
C10_Witness ==
    /\ last.op = "Get" /\ last.out = "ok"
    /\ IsMaterialized(1)
    /\ docs[1].msg \in DecodeData \ {NoMsg}

-----------------------------------------------------------------------------
\* C5: a Set, SetAll or SetExpiresAt on one document changes neither the
\* bytes nor the field map of the other, of which it is a copy or which is
\* a copy of it (materialized or not when copied, nested paths included).
C5_Step ==
    last'.op \in {"Set", "SetAll", "SetExpiresAt"} =>
        \A x \in DocIds :
            (last'.doc # x /\ docs[x].live) =>
                /\ docs'[x].live
                /\ docs'[x].msg = docs[x].msg
                /\ FieldMap(x)' = FieldMap(x)

-----------------------------------------------------------------------------
\* the key a field is stored under
KeyOf(f) == IF f.tag[1] # "" THEN f.tag[1] ELSE f.name

TaggedOmitEmpty(f) == Len(f.tag) >= 2 /\ f.tag[2] = "omitempty"

\* the zero value of the field's type
RECURSIVE IsZero(_)
IsZero(val) ==
    CASE val.k \in {"int", "uint", "float"} -> val.v = 0
      [] val.k = "bool"                     -> val.v = FALSE
      [] val.k = "str"                      -> val.v = ""
      [] val.k = "slice"                    -> val.v = <<>>
      [] val.k = "array"                    -> \A i \in 1..Len(val.v) : IsZero(val.v[i])
      [] val.k = "map"                      -> DOMAIN val.v = {}
      [] val.k \in {"nil", "nilptr"}        -> TRUE
      [] val.k = "struct"                   -> \A i \in 1..Len(val.v) : IsZero(val.v[i].val)
      [] OTHER                              -> FALSE

\* no other field of the record is stored under the field's key
OwnKey(fields, i) == \A j \in 1..Len(fields) : j # i => KeyOf(fields[j]) # KeyOf(fields[i])

\* C8 (as claimed): for an exported field tagged "omit if empty", whatever its
\* kind, the resulting map lacks the field's key when the field holds its zero
\* value and has the field's key when it holds a non-zero value.
C8_ZeroOmitted ==
    (nrm.done /\ ~nrm.err) =>
        \A i \in 1..Len(nrm.in.v) :
            LET f == nrm.in.v[i]
            IN  (f.exported /\ TaggedOmitEmpty(f) /\ OwnKey(nrm.in.v, i)) =>
                    (KeyOf(f) \in DOMAIN nrm.out) = ~IsZero(f.val)

\* empty, by the kind of the field: zero number, false, length 0, nil
EmptyField(f) ==
    CASE f.kind \in {"int", "uint", "float"}       -> f.val.v = 0
      [] f.kind = "bool"                           -> f.val.v = FALSE
      [] f.kind = "str"                            -> f.val.v = ""
      [] f.kind \in {"slice", "array"}             -> f.val.v = <<>>
      [] f.kind = "map"                            -> DOMAIN f.val.v = {}
      [] f.kind \in {"ptr", "iface"}               -> f.val.k \in {"nil", "nilptr"}
      [] OTHER                                     -> FALSE

\* the field is embedded and its value normalizes to a map
Flattened(f) ==
    f.anonymous /\ ~Normalize(f.val).err /\ Normalize(f.val).val.k = "map"

\* C8 (amended): for an exported field tagged "omit if empty" whose key no
\* other field uses, the resulting map lacks the key when the field is empty
\* by its kind (zero number, false, zero-length string, slice, array or map,
\* nil pointer or interface); otherwise it has the key, a struct (even all
\* zero) and a non-empty array of zeros included, unless the field is
\* embedded and normalizes to a map, whose entries are then merged instead.
C8_EmptyOmitted ==
    (nrm.done /\ ~nrm.err) =>
        \A i \in 1..Len(nrm.in.v) :
            LET f == nrm.in.v[i]
            IN  (f.exported /\ TaggedOmitEmpty(f) /\ OwnKey(nrm.in.v, i)) =>
                    IF EmptyField(f) THEN KeyOf(f) \notin DOMAIN nrm.out
                    ELSE IF Flattened(f)
                    THEN \A key \in DOMAIN Normalize(f.val).val.v :
                            key \in DOMAIN nrm.out
                    ELSE KeyOf(f) \in DOMAIN nrm.out

\* an all-zero struct field tagged "n,omitempty" is kept; and a false bool is omitted
C8_Witness ==
    /\ nrm.done /\ ~nrm.err
    /\ nrm.in.v[1].tag = <<"n", "omitempty">> /\ nrm.in.v[1].exported
    /\ ~nrm.in.v[1].anonymous
    /\ nrm.in.v[1].val = ZeroInner
    /\ nrm.in.v[2].tag = <<"">>
    /\ "n" \in DOMAIN nrm.out

-----------------------------------------------------------------------------
\* C9: CreateBadgerIndex for a declared index kind yields an Index bound to
\* the collection, field and kind it was given: Collection(), Field() and
\* Type() return them.
C9_IndexBound ==
    idx.made =>
        /\ ~idx.isNil
        /\ idx.collection = idx.argCollection
        /\ idx.field = idx.argField
        /\ idx.type = idx.argType
        /\ idx.ret # "panic"

====
